---- MODULE Spec2Model ----
(***************************************************************************)
(* Keystroke Kingdom: the game API of src/game (views.py, serializers.py,  *)
(* models.py): the cache-backed fixed-window rate limiter, the save slot   *)
(* and score entry tables, and the six API handlers.                       *)
(*                                                                         *)
(* Time is a discrete clock `now` (seconds).  The Django cache is a map    *)
(* from key to a value with an absolute expiry; the two tables are sets of *)
(* rows.  Several specifications share the variables; each keeps the       *)
(* variables it does not use at their initial value.                       *)
(***************************************************************************)
EXTENDS Integers, Sequences, FiniteSets, TLC

VARIABLES
    now,          \* time.time(), in seconds
    cache,        \* django.core.cache.cache: key -> [value, expires]
    saves,        \* rows of GameSave
    scores,       \* rows of HighScore
    deco,         \* arguments of a rate_limit(...) decoration (RLSpec, RLRaceSpec)
    inflight,     \* requests being handled, by worker: its position and locals
    resp,         \* the response returned last, with the request it answers
    log,          \* history: the requests answered so far, in order
    storeQueries, \* history: number of HighScore queries run by leaderboard
    lastSaved,    \* history: by user, the request of the last save_game answered 200
    calls,        \* history: number of API requests answered
    upstreamCalls \* history: number of calls of the Anthropic API by claude_proxy

hist == <<log, storeQueries, lastSaved, calls, upstreamCalls>>

vars == <<now, cache, saves, scores, deco, inflight, resp, hist>>

(***************************************************************************)
(* Bounds of the model.                                                    *)
(***************************************************************************)
MaxTime == 5        \* the clock stops here
MaxN == 2           \* largest max_requests drawn for a decoration
MaxW == 2           \* largest window_seconds drawn for a decoration
MaxLog == 4         \* requests recorded in the history
MaxRaceReqs == 3    \* requests made to the workers of RLRaceSpec

(***************************************************************************)
(* Values.                                                                 *)
(***************************************************************************)
None == "None"                            \* None, where a scalar is expected
Absent == [absent |-> TRUE]               \* None, where an object is expected
AnonymousUser == "AnonymousUser"
Users == {"1", "2"}                       \* request.user.id of the accounts

HTTP_200_OK == 200
HTTP_201_CREATED == 201
HTTP_400_BAD_REQUEST == 400
HTTP_401_UNAUTHORIZED == 401
HTTP_403_FORBIDDEN == 403
HTTP_404_NOT_FOUND == 404
HTTP_429_TOO_MANY_REQUESTS == 429
HTTP_503_SERVICE_UNAVAILABLE == 503

(***************************************************************************)
(* The cache (django.core.cache).  An entry set at time t with timeout ttl *)
(* is readable while the clock is before t + ttl; `stored` keeps t.        *)
(***************************************************************************)
EmptyCache == [k \in {} |-> Absent]

CacheLive(c, key, t) == key \in DOMAIN c /\ t < c[key].expires

CacheGet(c, key, t) == IF CacheLive(c, key, t) THEN c[key].value ELSE Absent

CacheSet(c, key, value, timeout, t) ==
    [k \in DOMAIN c \cup {key} |->
        IF k = key THEN [value |-> value, expires |-> t + timeout, stored |-> t]
        ELSE c[k]]

(***************************************************************************)
(* rate_limit: the cache key of a request (views.py 31-37).  A request is  *)
(* [user, xff, addr]: the authenticated user's id or AnonymousUser, the    *)
(* X-Forwarded-For header and REMOTE_ADDR (None when absent).              *)
(***************************************************************************)
is_authenticated(request) == request.user # AnonymousUser

ip(request) ==
    IF request.xff # None THEN request.xff
    ELSE IF request.addr # None THEN request.addr
    ELSE "unknown"

cache_key_shared_by_actions(key_prefix, request) ==
    IF is_authenticated(request)
    THEN "rate_limit:user:" \o request.user
    ELSE "rate_limit:ip:" \o ip(request)

cache_key(key_prefix, request) ==
    IF is_authenticated(request)
    THEN "rate_limit:" \o key_prefix \o ":user:" \o request.user
    ELSE "rate_limit:" \o key_prefix \o ":ip:" \o ip(request)

(***************************************************************************)
(* rate_limit: the decision of wrapped_view (views.py 43-62) on the        *)
(* rate_data it read, at current_time; the cache write happens at set_time.*)
(* The result is [allowed, cache]: whether view_func is called, and the    *)
(* cache afterwards.                                                       *)
(***************************************************************************)
wrapped_view_denies_above_limit(c, key, rate_data, current_time, set_time, max_requests, window_seconds) ==
    IF rate_data = Absent
    THEN [allowed |-> TRUE,
          cache |-> CacheSet(c, key, [count |-> 1, start |-> current_time],
                             window_seconds, set_time)]
    ELSE IF current_time - rate_data.start > window_seconds
    THEN [allowed |-> TRUE,
          cache |-> CacheSet(c, key, [count |-> 1, start |-> current_time],
                             window_seconds, set_time)]
    ELSE IF rate_data.count > max_requests
    THEN [allowed |-> FALSE, cache |-> c]
    ELSE [allowed |-> TRUE,
          cache |-> CacheSet(c, key, [rate_data EXCEPT !.count = @ + 1],
                             window_seconds, set_time)]

wrapped_view_denial_restores_entry(c, key, rate_data, current_time, set_time, max_requests, window_seconds) ==
    IF rate_data = Absent
    THEN [allowed |-> TRUE,
          cache |-> CacheSet(c, key, [count |-> 1, start |-> current_time],
                             window_seconds, set_time)]
    ELSE IF current_time - rate_data.start > window_seconds
    THEN [allowed |-> TRUE,
          cache |-> CacheSet(c, key, [count |-> 1, start |-> current_time],
                             window_seconds, set_time)]
    ELSE IF rate_data.count >= max_requests
    THEN [allowed |-> FALSE,
          cache |-> CacheSet(c, key, rate_data, window_seconds, set_time)]
    ELSE [allowed |-> TRUE,
          cache |-> CacheSet(c, key, [rate_data EXCEPT !.count = @ + 1],
                             window_seconds, set_time)]

wrapped_view_counts_denied_requests(c, key, rate_data, current_time, set_time, max_requests, window_seconds) ==
    IF rate_data = Absent
    THEN [allowed |-> TRUE,
          cache |-> CacheSet(c, key, [count |-> 1, start |-> current_time],
                             window_seconds, set_time)]
    ELSE IF current_time - rate_data.start > window_seconds
    THEN [allowed |-> TRUE,
          cache |-> CacheSet(c, key, [count |-> 1, start |-> current_time],
                             window_seconds, set_time)]
    ELSE [allowed |-> rate_data.count < max_requests,
          cache |-> CacheSet(c, key, [rate_data EXCEPT !.count = @ + 1],
                             window_seconds, set_time)]

wrapped_view(c, key, rate_data, current_time, set_time, max_requests, window_seconds) ==
    IF rate_data = Absent
    THEN \* First request in window
         [allowed |-> TRUE,
          cache |-> CacheSet(c, key, [count |-> 1, start |-> current_time],
                             window_seconds, set_time)]
    ELSE IF current_time - rate_data.start > window_seconds
    THEN \* Reset window
         [allowed |-> TRUE,
          cache |-> CacheSet(c, key, [count |-> 1, start |-> current_time],
                             window_seconds, set_time)]
    ELSE IF rate_data.count >= max_requests
    THEN \* Rate limit exceeded
         [allowed |-> FALSE, cache |-> c]
    ELSE \* Increment count
         [allowed |-> TRUE,
          cache |-> CacheSet(c, key, [rate_data EXCEPT !.count = @ + 1],
                             window_seconds, set_time)]

(***************************************************************************)
(* Common initial values.                                                  *)
(***************************************************************************)
NoResp == [view |-> None]
NoDeco == [max_requests |-> 0, window_seconds |-> 0]
Workers == {"w1", "w2"}
Idle == [pc |-> "idle"]

InitCommon ==
    /\ now = 0
    /\ cache = EmptyCache
    /\ saves = {}
    /\ scores = {}
    /\ inflight = [w \in Workers |-> Idle]
    /\ resp = NoResp
    /\ log = <<>>
    /\ storeQueries = 0
    /\ lastSaved = [u \in Users |-> Absent]
    /\ calls = 0
    /\ upstreamCalls = 0

Tick ==
    /\ now < MaxTime
    /\ now' = now + 1
    /\ UNCHANGED <<cache, saves, scores, deco, inflight, resp, hist>>

(***************************************************************************)
(* RLSpec: one view decorated with rate_limit("view", max_requests,        *)
(* window_seconds), the arguments drawn at start, called by requests one   *)
(* after another.  The decorated view itself just answers 200.             *)
(***************************************************************************)
RLClients ==
    { [user |-> "1", xff |-> None, addr |-> "10.0.0.1"],
      [user |-> AnonymousUser, xff |-> None, addr |-> "10.0.0.1"],
      [user |-> AnonymousUser, xff |-> "10.0.0.1", addr |-> "10.0.0.2"] }

RLInit ==
    /\ InitCommon
    /\ deco \in [max_requests : 1..MaxN, window_seconds : 1..MaxW]

RLRequest(request) ==
    LET key == cache_key("view", request)
        rate_data == CacheGet(cache, key, now)
        r == wrapped_view(cache, key, rate_data, now, now,
                          deco.max_requests, deco.window_seconds)
        status == IF r.allowed THEN HTTP_200_OK ELSE HTTP_429_TOO_MANY_REQUESTS
    IN  /\ Len(log) < MaxLog
        /\ cache' = r.cache
        /\ resp' = [view |-> "view", request |-> request, status |-> status]
        /\ log' = Append(log, [key |-> key, time |-> now, hit |-> rate_data # Absent,
                               status |-> status,
                               stored |-> CacheGet(r.cache, key, now)])
        /\ UNCHANGED <<now, saves, scores, deco, inflight, storeQueries, lastSaved, calls, upstreamCalls>>

RLCall == \E request \in RLClients : RLRequest(request)

RLNext == RLCall \/ Tick

RLSpec == RLInit /\ [][RLNext]_vars

(***************************************************************************)
(* Reading the history: the requests of one cache key, and the fixed       *)
(* window they should follow.  A window opens with a request and takes the *)
(* requests that follow it for window_seconds; with byEntry, it also ends  *)
(* when the cache no longer returns its entry.                             *)
(***************************************************************************)
LogKeys == {log[i].key : i \in 1..Len(log)}

EventsOf(key) == SelectSeq(log, LAMBDA e : e.key = key)

RECURSIVE FollowsWindow(_, _, _, _, _)
FollowsWindow(evs, i, start, n, byEntry) ==
    IF i > Len(evs) THEN TRUE
    ELSE LET e == evs[i]
             within == /\ start >= 0
                       /\ e.time - start <= deco.window_seconds
                       /\ (byEntry => e.hit)
             start2 == IF within THEN start ELSE e.time
             n2 == IF within THEN n + 1 ELSE 1
         IN  /\ e.status = IF n2 <= deco.max_requests
                           THEN HTTP_200_OK ELSE HTTP_429_TOO_MANY_REQUESTS
             /\ ~within => e.stored = [count |-> 1, start |-> e.time]
             /\ FollowsWindow(evs, i + 1, start2, n2, byEntry)

\* C1 as stated: per key, the first max_requests requests made no more than
\* window_seconds after the window's first request are allowed, every further
\* one in that time is denied with 429, and the first request made more than
\* window_seconds after the window's start is allowed and stores a new window
\* with count 1.
C1_WindowByClockAlone ==
    \A key \in LogKeys : FollowsWindow(EventsOf(key), 1, -1, 0, FALSE)

\* C1, amended: the same, with the window also ending when its cache entry has
\* expired: a request exactly window_seconds after the window's start opens a
\* new window if the entry is no longer readable.
C1_WindowByClockAndEntry ==
    \A key \in LogKeys : FollowsWindow(EventsOf(key), 1, -1, 0, TRUE)

\* A key whose limit was reached, a request was denied, and a request made
\* after the window had elapsed was allowed into a new window.
C1_Witness ==
    \E i, j \in 1..Len(log) :
        /\ i < j
        /\ log[i].key = log[j].key
        /\ log[i].status = HTTP_429_TOO_MANY_REQUESTS
        /\ log[i].stored # Absent
        /\ log[i].stored.count = deco.max_requests
        /\ log[j].time - log[i].stored.start > deco.window_seconds
        /\ log[j].status = HTTP_200_OK
        /\ log[j].stored = [count |-> 1, start |-> log[j].time]

(***************************************************************************)
(* RLRaceSpec: the same decorated view, with requests handled by several   *)
(* workers at once.  A worker runs wrapped_view in two steps, the cache    *)
(* read with the clock read (views.py 40-41) and the decision with its     *)
(* cache write and the call of the view (views.py 43-62); other workers    *)
(* and the clock may step in between.  The requests come from one client,  *)
(* so that they all meet on one cache key.                                 *)
(***************************************************************************)
RaceClients ==
    { [user |-> AnonymousUser, xff |-> "10.0.0.1", addr |-> "10.0.0.2"] }

RLBegin(w, request) ==
    /\ inflight[w].pc = "idle"
    /\ Len(log) + Cardinality({v \in Workers : inflight[v].pc # "idle"}) < MaxRaceReqs
    /\ inflight' = [inflight EXCEPT ![w] =
                       [pc |-> "get", request |-> request,
                        key |-> cache_key("view", request)]]
    /\ UNCHANGED <<now, cache, saves, scores, deco, resp, hist>>

RLGet(w) ==
    /\ inflight[w].pc = "get"
    /\ inflight' = [inflight EXCEPT ![w] =
                       [pc |-> "decide", request |-> @.request, key |-> @.key,
                        rate_data |-> CacheGet(cache, @.key, now),
                        current_time |-> now]]
    /\ UNCHANGED <<now, cache, saves, scores, deco, resp, hist>>

RLDecide(w) ==
    /\ inflight[w].pc = "decide"
    /\ LET f == inflight[w]
           r == wrapped_view(cache, f.key, f.rate_data, f.current_time, now,
                             deco.max_requests, deco.window_seconds)
           status == IF r.allowed THEN HTTP_200_OK ELSE HTTP_429_TOO_MANY_REQUESTS
       IN  /\ cache' = r.cache
           /\ resp' = [view |-> "view", request |-> f.request, status |-> status]
           /\ log' = Append(log, [key |-> f.key, time |-> f.current_time,
                                  hit |-> f.rate_data # Absent, status |-> status,
                                  stored |-> CacheGet(r.cache, f.key, now)])
    /\ inflight' = [inflight EXCEPT ![w] = Idle]
    /\ UNCHANGED <<now, saves, scores, deco, storeQueries, lastSaved, calls, upstreamCalls>>

RLArrive == \E w \in Workers, request \in RaceClients : RLBegin(w, request)

RLRead == \E w \in Workers : RLGet(w)

RLWrite == \E w \in Workers : RLDecide(w)

RLRaceNext == RLArrive \/ RLRead \/ RLWrite \/ Tick

RLRaceSpec == RLInit /\ [][RLRaceNext]_vars

AllIdle == \A w \in Workers : inflight[w].pc = "idle"

\* C2: once every request has finished, the count stored in a readable window
\* entry equals the number of requests that were allowed into that window.
C2_NoLostIncrement ==
    AllIdle =>
        \A key \in DOMAIN cache :
            CacheLive(cache, key, now) =>
                cache[key].value.count =
                    Cardinality({i \in 1..Len(log) :
                                    /\ log[i].key = key
                                    /\ log[i].status = HTTP_200_OK
                                    /\ log[i].stored.start = cache[key].value.start})

(***************************************************************************)
(* JSON values of a request body.  A number is held as twice its value, so *)
(* that 3.5 is Num(7); NumStr is the string that spells a number ("3" or   *)
(* "3.5"), Text a string that spells none, Null is null.                   *)
(***************************************************************************)
Num(k2) == [t |-> "num", twice |-> k2]
NumStr(k2) == [t |-> "numstr", twice |-> k2]
Text == [t |-> "text", twice |-> 0]
Null == [t |-> "null", twice |-> 0]
EmptyFields == [k \in {} |-> Null]
Dict(fields) == [t |-> "dict", fields |-> fields]
List == [t |-> "list", fields |-> EmptyFields]

\* request.data.get(field, default)
Get(data, field, default) == IF field \in DOMAIN data THEN data[field] ELSE default

(***************************************************************************)
(* validate_game_state (views.py 68-91).  The result is [ok, error]; a     *)
(* comparison of a number with a value that is no number raises TypeError  *)
(* (raised), which the caller's except clause catches.                     *)
(***************************************************************************)
Valid == [ok |-> TRUE, error |-> None, raised |-> FALSE]
Invalid(msg) == [ok |-> FALSE, error |-> msg, raised |-> FALSE]
Raised(msg) == [ok |-> FALSE, error |-> msg, raised |-> TRUE]

InRange(lo, v, hi) == 2 * lo <= v.twice /\ v.twice <= 2 * hi

validate_game_state(game_state) ==
    IF game_state.t # "dict" THEN Invalid("Game state must be a JSON object")
    ELSE LET f == game_state.fields IN
         IF "currentDay" \notin DOMAIN f THEN Invalid("Missing required field: currentDay")
         ELSE IF "employment" \notin DOMAIN f THEN Invalid("Missing required field: employment")
         ELSE IF "inflation" \notin DOMAIN f THEN Invalid("Missing required field: inflation")
         ELSE IF f.currentDay.t # "num" THEN Raised("TypeError")
         ELSE IF ~InRange(1, f.currentDay, 100) THEN Invalid("Invalid currentDay value")
         ELSE IF f.employment.t # "num" THEN Raised("TypeError")
         ELSE IF ~InRange(0, f.employment, 100) THEN Invalid("Invalid employment value")
         ELSE IF f.inflation.t # "num" THEN Raised("TypeError")
         ELSE IF ~InRange(-10, f.inflation, 100) THEN Invalid("Invalid inflation value")
         ELSE Valid

(***************************************************************************)
(* The columns of GameSave (models.py 12-19).  Writing a value to an       *)
(* IntegerField column converts it with int(), to a FloatField column with *)
(* float(); the columns are NOT NULL.  The result is [ok, value]: ok is    *)
(* FALSE when the write raises (ValueError, TypeError, IntegrityError).    *)
(***************************************************************************)
Trunc(k2) == IF k2 >= 0 THEN k2 \div 2 ELSE -((-k2) \div 2)

IntegerField(v) ==
    IF v.t = "num" THEN [ok |-> TRUE, value |-> Num(2 * Trunc(v.twice))]
    ELSE IF v.t = "numstr" /\ v.twice % 2 = 0 THEN [ok |-> TRUE, value |-> Num(v.twice)]
    ELSE [ok |-> FALSE, value |-> Null]

FloatField(v) ==
    IF v.t \in {"num", "numstr"} THEN [ok |-> TRUE, value |-> Num(v.twice)]
    ELSE [ok |-> FALSE, value |-> Null]

\* The fields save_game reads from the request body (views.py 114-118).
save_fields(data) ==
    [game_state |-> Get(data, "game_state", Dict(EmptyFields)),
     day |-> Get(data, "day", Num(2)),
     employment |-> Get(data, "employment", Num(0)),
     inflation |-> Get(data, "inflation", Num(0)),
     services_score |-> Get(data, "services_score", Num(0))]

\* The column values of these fields; ok is FALSE when a conversion raises.
save_columns(f) ==
    LET day == IntegerField(f.day)
        employment == FloatField(f.employment)
        inflation == FloatField(f.inflation)
        services_score == FloatField(f.services_score)
    IN  [ok |-> day.ok /\ employment.ok /\ inflation.ok /\ services_score.ok,
         game_state |-> f.game_state,
         day |-> day.value,
         employment |-> employment.value,
         inflation |-> inflation.value,
         services_score |-> services_score.value]

\* GameSave.objects.filter(user=user)
saves_of(table, user) == {row \in table : row.user = user}

\* The INSERT of get_or_create (views.py 129-138): a new row; created_at and
\* updated_at are set by auto_now_add and auto_now (models.py 18-19).
insert_save(table, user, col, t) ==
    table \cup {[id |-> Cardinality(table) + 1, user |-> user,
                 game_state |-> col.game_state, day |-> col.day,
                 employment |-> col.employment, inflation |-> col.inflation,
                 services_score |-> col.services_score,
                 created_at |-> t, updated_at |-> t]}

\* game_save.save(update_fields=[...]) (views.py 142-147): the UPDATE of the
\* row with the object's id.
updated_save_keeps_day(row, col, t) ==
    [row EXCEPT !.game_state = col.game_state,
                !.employment = col.employment, !.inflation = col.inflation,
                !.services_score = col.services_score, !.updated_at = t]

updated_save_resets_created_at(row, col, t) ==
    [row EXCEPT !.game_state = col.game_state, !.day = col.day,
                !.employment = col.employment, !.inflation = col.inflation,
                !.services_score = col.services_score, !.created_at = t,
                !.updated_at = t]

updated_save(row, col, t) ==
    [row EXCEPT !.game_state = col.game_state, !.day = col.day,
                !.employment = col.employment, !.inflation = col.inflation,
                !.services_score = col.services_score, !.updated_at = t]

update_save(table, id, col, t) ==
    {IF row.id = id THEN updated_save(row, col, t) ELSE row : row \in table}

(***************************************************************************)
(* save_game (views.py 113-160), after the permission check and the rate   *)
(* limiter: `found` is what the lookup of get_or_create read, `table` the  *)
(* table when the row is written, t the time of the write.  The result is  *)
(* [status, body, saves].  Every exception ends in the 400 of the except   *)
(* clause, with the table as it was.                                       *)
(***************************************************************************)
Error(status, msg, table) ==
    [status |-> status, body |-> [error |-> msg], saves |-> table]

save_game_without_validation(table, found, user, data, t) ==
    LET f == save_fields(data)
        col == save_columns(f)
    IN  IF user = AnonymousUser
        THEN Error(HTTP_400_BAD_REQUEST, "TypeError", table)
        ELSE IF Cardinality(found) > 1
        THEN Error(HTTP_400_BAD_REQUEST, "MultipleObjectsReturned", table)
        ELSE IF ~col.ok THEN Error(HTTP_400_BAD_REQUEST, "ValueError", table)
        ELSE IF found = {}
        THEN LET after == insert_save(table, user, col, t)
             IN  [status |-> HTTP_200_OK,
                  body |-> CHOOSE row \in after : row \notin table,
                  saves |-> after]
        ELSE LET game_save == CHOOSE row \in found : TRUE
             IN  [status |-> HTTP_200_OK,
                  body |-> updated_save(game_save, col, t),
                  saves |-> update_save(table, game_save.id, col, t)]

save_game(table, found, user, data, t) ==
    LET f == save_fields(data)
        v == validate_game_state(f.game_state)
        col == save_columns(f)
    IN  IF ~v.ok THEN Error(HTTP_400_BAD_REQUEST, v.error, table)
        ELSE IF user = AnonymousUser
        THEN \* user=AnonymousUser is no value of the foreign key: TypeError
             Error(HTTP_400_BAD_REQUEST, "TypeError", table)
        ELSE IF Cardinality(found) > 1
        THEN Error(HTTP_400_BAD_REQUEST, "MultipleObjectsReturned", table)
        ELSE IF ~col.ok THEN Error(HTTP_400_BAD_REQUEST, "ValueError", table)
        ELSE IF found = {}
        THEN LET after == insert_save(table, user, col, t)
             IN  [status |-> HTTP_200_OK,
                  body |-> CHOOSE row \in after : row \notin table,
                  saves |-> after]
        ELSE LET game_save == CHOOSE row \in found : TRUE
             IN  [status |-> HTTP_200_OK,
                  body |-> updated_save(game_save, col, t),
                  saves |-> update_save(table, game_save.id, col, t)]

(***************************************************************************)
(* load_game (views.py 170-194): the first row of the user in the order of *)
(* GameSave.Meta (models.py 22), newest updated_at first; rows with the    *)
(* same updated_at come in an order the database chooses.  The result is   *)
(* the set of responses [status, body] the query can give.                 *)
(***************************************************************************)
load_game_missing_is_error(table, user) ==
    LET rows == saves_of(table, user)
        first == {row \in rows : \A other \in rows : other.updated_at <= row.updated_at}
    IN  IF user = AnonymousUser \/ rows = {}
        THEN {[status |-> HTTP_400_BAD_REQUEST, body |-> [error |-> "TypeError"]]}
        ELSE {[status |-> HTTP_200_OK, body |-> row] : row \in first}

load_game(table, user) ==
    LET rows == saves_of(table, user)
        first == {row \in rows : \A other \in rows : other.updated_at <= row.updated_at}
    IN  IF user = AnonymousUser
        THEN {[status |-> HTTP_400_BAD_REQUEST, body |-> [error |-> "TypeError"]]}
        ELSE IF rows = {}
        THEN {[status |-> HTTP_404_NOT_FOUND, body |-> [error |-> "No saved game found"]]}
        ELSE {[status |-> HTTP_200_OK, body |-> row] : row \in first}

(***************************************************************************)
(* The API handlers, called one after another.  Each action is a whole     *)
(* request: the permission check of the view (IsAuthenticated        *)
(* answers a request without a user 401 or 403, as the authentication      *)
(* classes are configured), then the rate limiter, then the handler.       *)
(***************************************************************************)
MaxCalls == 3       \* API requests made
MaxApiTime == 2     \* the clock of the API specifications stops here

save_game_max_requests == 30
save_game_window_seconds == 60

ApiClients ==
    { [user |-> "1", xff |-> None, addr |-> "10.0.0.1"],
      [user |-> "2", xff |-> None, addr |-> "10.0.0.1"],
      [user |-> AnonymousUser, xff |-> None, addr |-> "10.0.0.1"] }

NotAuthenticated == {HTTP_401_UNAUTHORIZED, HTTP_403_FORBIDDEN}

\* The permission_classes of a view (views.py 105, 164, 198, 232, 278, 357).
has_permission_allow_any(view, request) == TRUE

has_permission(view, request) ==
    IF view = "leaderboard" THEN TRUE ELSE is_authenticated(request)

Response(view, request, data, status, body) ==
    [view |-> view, request |-> request, data |-> data, status |-> status, body |-> body]

GoodState == Dict([currentDay |-> Num(100), employment |-> Num(100), inflation |-> Num(0)])

SaveBodies ==
    { [game_state |-> GoodState, day |-> Num(100), employment |-> Num(100),
       inflation |-> Num(0), services_score |-> Num(3)],
      [game_state |-> Dict([currentDay |-> Num(2), employment |-> Num(0), inflation |-> Num(-20)]),
       day |-> Num(7), employment |-> NumStr(101), inflation |-> Num(-20)],
      [game_state |-> GoodState, day |-> NumStr(4), employment |-> Num(1)],
      [game_state |-> GoodState, day |-> Text],
      [game_state |-> Dict([currentDay |-> Num(0), employment |-> Num(100), inflation |-> Num(0)]),
       day |-> Num(2)],
      [game_state |-> Dict([currentDay |-> Text, employment |-> Num(100), inflation |-> Num(0)])],
      [day |-> Num(2)] }

SaveGame_validates_first(request, data) ==
    /\ calls < MaxCalls
    /\ calls' = calls + 1
    /\ IF ~has_permission("save_game", request)
       THEN /\ \E status \in NotAuthenticated :
                  resp' = Response("save_game", request, data, status, Absent)
            /\ UNCHANGED <<cache, saves, lastSaved>>
       ELSE LET key == cache_key("save_game", request)
                r == wrapped_view(cache, key, CacheGet(cache, key, now), now, now,
                                  save_game_max_requests, save_game_window_seconds)
                out == save_game(saves, saves_of(saves, request.user), request.user, data, now)
            IN  IF ~validate_game_state(save_fields(data).game_state).ok
                THEN /\ resp' = Response("save_game", request, data, out.status, out.body)
                     /\ UNCHANGED <<cache, saves, lastSaved>>
                ELSE /\ cache' = r.cache
                     /\ IF ~r.allowed
                        THEN /\ resp' = Response("save_game", request, data,
                                                 HTTP_429_TOO_MANY_REQUESTS, Absent)
                             /\ UNCHANGED <<saves, lastSaved>>
                        ELSE /\ resp' = Response("save_game", request, data, out.status, out.body)
                             /\ saves' = out.saves
                             /\ lastSaved' = IF out.status = HTTP_200_OK
                                             THEN [lastSaved EXCEPT ![request.user] = save_fields(data)]
                                             ELSE lastSaved
    /\ UNCHANGED <<now, scores, deco, inflight, log, storeQueries, upstreamCalls>>

SaveGame(request, data) ==
    /\ calls < MaxCalls
    /\ calls' = calls + 1
    /\ IF ~has_permission("save_game", request)
       THEN /\ \E status \in NotAuthenticated :
                  resp' = Response("save_game", request, data, status, Absent)
            /\ UNCHANGED <<cache, saves, lastSaved>>
       ELSE LET key == cache_key("save_game", request)
                r == wrapped_view(cache, key, CacheGet(cache, key, now), now, now,
                                  save_game_max_requests, save_game_window_seconds)
                out == save_game(saves, saves_of(saves, request.user), request.user, data, now)
            IN  /\ cache' = r.cache
                /\ IF ~r.allowed
                   THEN /\ resp' = Response("save_game", request, data,
                                            HTTP_429_TOO_MANY_REQUESTS, Absent)
                        /\ UNCHANGED <<saves, lastSaved>>
                   ELSE /\ resp' = Response("save_game", request, data, out.status, out.body)
                        /\ saves' = out.saves
                        /\ lastSaved' = IF out.status = HTTP_200_OK
                                        THEN [lastSaved EXCEPT ![request.user] = save_fields(data)]
                                        ELSE lastSaved
    /\ UNCHANGED <<now, scores, deco, inflight, log, storeQueries, upstreamCalls>>

LoadGame(request) ==
    /\ calls < MaxCalls
    /\ calls' = calls + 1
    /\ IF ~has_permission("load_game", request)
       THEN \E status \in NotAuthenticated :
                resp' = Response("load_game", request, Absent, status, Absent)
       ELSE \E out \in load_game(saves, request.user) :
                resp' = Response("load_game", request, Absent, out.status, out.body)
    /\ UNCHANGED <<now, cache, saves, scores, deco, inflight, log, storeQueries, lastSaved, upstreamCalls>>

ApiTick ==
    /\ now < MaxApiTime
    /\ now' = now + 1
    /\ UNCHANGED <<cache, saves, scores, deco, inflight, resp, hist>>

Init == InitCommon /\ deco = NoDeco

(***************************************************************************)
(* SaveSpec: save_game and load_game, called one after another.            *)
(***************************************************************************)
Save == \E request \in ApiClients, data \in SaveBodies : SaveGame(request, data)

Load == \E request \in ApiClients : LoadGame(request)

SaveNext == Save \/ Load \/ ApiTick

SaveSpec == Init /\ [][SaveNext]_vars

\* The five saved fields of a slot equal those of f.
SameSave(row, f) ==
    /\ row.game_state = f.game_state
    /\ row.day = f.day
    /\ row.employment = f.employment
    /\ row.inflation = f.inflation
    /\ row.services_score = f.services_score

\* C4 as stated: once a user's save_game has succeeded, the user has exactly
\* one slot, and load_game returns the game state, day, employment, inflation
\* and services score that the most recent successful save_game request gave.
C4_LoadReturnsRequestValues ==
    \A u \in Users :
        lastSaved[u] # Absent =>
            /\ Cardinality(saves_of(saves, u)) = 1
            /\ \A out \in load_game(saves, u) :
                   out.status = HTTP_200_OK /\ SameSave(out.body, lastSaved[u])

\* C4, amended: load_game returns the game state of the most recent
\* successful save_game request, and its day, employment, inflation and
\* services score converted to the column types (the day to an integer,
\* truncating a fraction; the others to floating point).
C4_LoadReturnsColumnValues ==
    \A u \in Users :
        lastSaved[u] # Absent =>
            /\ Cardinality(saves_of(saves, u)) = 1
            /\ \A out \in load_game(saves, u) :
                   out.status = HTTP_200_OK
                   /\ SameSave(out.body, save_columns(lastSaved[u]))

\* A user saved, saved again later (the slot was overwritten), and load_game
\* has just answered that user.
C4_Witness ==
    /\ resp.view = "load_game"
    /\ resp.status = HTTP_200_OK
    /\ lastSaved[resp.request.user] # Absent
    /\ resp.body.updated_at > resp.body.created_at

(***************************************************************************)
(* SaveRaceSpec: save_game handled by several workers at once.  A worker   *)
(* takes a request through the permission check, the rate limiter and the  *)
(* validation (SaveBegin), then runs get_or_create in its two database     *)
(* statements: the SELECT of the user's slot (SaveLookup, views.py 129)    *)
(* and the INSERT, or the UPDATE of save() (SaveWrite, views.py 129-147).  *)
(* GameSave.user is a ForeignKey without a unique constraint (models.py    *)
(* 12), so nothing in the database rejects a second row of the user.       *)
(***************************************************************************)
RaceBodies ==
    { [game_state |-> GoodState, day |-> Num(100), employment |-> Num(100),
       inflation |-> Num(0), services_score |-> Num(3)],
      [game_state |-> GoodState, day |-> Num(2)] }

SaveBegin(w, request, data) ==
    /\ inflight[w].pc = "idle"
    /\ calls < MaxRaceReqs
    /\ calls' = calls + 1
    /\ IF ~has_permission("save_game", request)
       THEN /\ \E status \in NotAuthenticated :
                  resp' = Response("save_game", request, data, status, Absent)
            /\ UNCHANGED <<cache, inflight>>
       ELSE LET key == cache_key("save_game", request)
                r == wrapped_view(cache, key, CacheGet(cache, key, now), now, now,
                                  save_game_max_requests, save_game_window_seconds)
                v == validate_game_state(save_fields(data).game_state)
            IN  /\ cache' = r.cache
                /\ IF ~r.allowed
                   THEN /\ resp' = Response("save_game", request, data,
                                            HTTP_429_TOO_MANY_REQUESTS, Absent)
                        /\ UNCHANGED inflight
                   ELSE IF ~v.ok
                   THEN /\ resp' = Response("save_game", request, data,
                                            HTTP_400_BAD_REQUEST, [error |-> v.error])
                        /\ UNCHANGED inflight
                   ELSE /\ inflight' = [inflight EXCEPT ![w] =
                                           [pc |-> "lookup", request |-> request, data |-> data]]
                        /\ UNCHANGED resp
    /\ UNCHANGED <<now, saves, scores, deco, log, storeQueries, lastSaved, upstreamCalls>>

SaveLookup(w) ==
    /\ inflight[w].pc = "lookup"
    /\ inflight' = [inflight EXCEPT ![w] =
                       [pc |-> "write", request |-> @.request, data |-> @.data,
                        found |-> saves_of(saves, @.request.user)]]
    /\ UNCHANGED <<now, cache, saves, scores, deco, resp, hist>>

SaveWrite(w) ==
    /\ inflight[w].pc = "write"
    /\ LET f == inflight[w]
           out == save_game(saves, f.found, f.request.user, f.data, now)
       IN  /\ saves' = out.saves
           /\ resp' = Response("save_game", f.request, f.data, out.status, out.body)
           /\ lastSaved' = IF out.status = HTTP_200_OK
                           THEN [lastSaved EXCEPT ![f.request.user] = save_fields(f.data)]
                           ELSE lastSaved
    /\ inflight' = [inflight EXCEPT ![w] = Idle]
    /\ UNCHANGED <<now, cache, scores, deco, log, storeQueries, calls, upstreamCalls>>

SaveArrive == \E w \in Workers, request \in ApiClients, data \in RaceBodies :
                  SaveBegin(w, request, data)

SaveSelect == \E w \in Workers : SaveLookup(w)

SaveStore == \E w \in Workers : SaveWrite(w)

SaveRaceNext == SaveArrive \/ SaveSelect \/ SaveStore \/ ApiTick

SaveRaceSpec == Init /\ [][SaveRaceNext]_vars

\* C3: when the save_game requests have all finished, every user whose save
\* succeeded has exactly one save slot.
C3_OneSlotPerUser ==
    AllIdle =>
        \A u \in Users :
            lastSaved[u] # Absent => Cardinality(saves_of(saves, u)) = 1

(***************************************************************************)
(* Initials (serializers.py 34-55).  A string is a sequence of characters. *)
(* The field is a CharField(max_length=3, min_length=1): it strips the     *)
(* whitespace around the input, rejects a blank value and a value longer   *)
(* than 3 characters, and only then calls validate_initials.               *)
(***************************************************************************)
MaxInitials == 4    \* longest initials input

Alphabet == {"a", "B", "1", "!", " "}

isalpha(ch) == ch \in {"a", "b", "A", "B"}

upper(ch) == IF ch = "a" THEN "A" ELSE IF ch = "b" THEN "B" ELSE ch

RECURSIVE lstrip(_)
lstrip(str) == IF str # <<>> /\ Head(str) = " " THEN lstrip(Tail(str)) ELSE str

RECURSIVE rstrip(_)
rstrip(str) ==
    IF str # <<>> /\ str[Len(str)] = " " THEN rstrip(SubSeq(str, 1, Len(str) - 1)) ELSE str

strip(str) == rstrip(lstrip(str))

\* cleaned.ljust(3)[:3]
ljust3(str) == SubSeq(str \o <<" ", " ", " ">>, 1, 3)

\* validate_initials (serializers.py 45-55)
validate_initials(value) ==
    LET cleaned == SelectSeq([i \in 1..Len(value) |-> upper(value[i])], isalpha)
        cut == IF Len(cleaned) > 3 THEN SubSeq(cleaned, 1, 3) ELSE cleaned
    IN  IF Len(cleaned) = 0
        THEN [ok |-> FALSE, value |-> <<>>,
              error |-> "Initials must contain at least one letter"]
        ELSE [ok |-> TRUE, value |-> ljust3(cut), error |-> None]

\* The initials field of HighScoreSubmitSerializer (serializers.py 34-39, 45).
initials_field(data) ==
    LET value == strip(data)
    IN  IF value = <<>>
        THEN [ok |-> FALSE, value |-> <<>>, error |-> "This field may not be blank."]
        ELSE IF Len(value) > 3
        THEN [ok |-> FALSE, value |-> <<>>,
              error |-> "Ensure this field has no more than 3 characters."]
        ELSE validate_initials(value)

(***************************************************************************)
(* submit_score (views.py 206-228), after the permission check and the     *)
(* rate limiter.  The body gives initials and score; the fields it leaves  *)
(* out take the defaults of HighScore (models.py 45-49).  The result is [status, body, scores].               *)
(***************************************************************************)
\* HighScoreSerializer (serializers.py 19-27): the fields of a response
HighScoreSerializer(row) ==
    [id |-> row.id, initials |-> row.initials, score |-> row.score,
     final_day |-> row.final_day, employment |-> row.employment,
     inflation |-> row.inflation, services |-> row.services,
     achieved_at |-> row.achieved_at]

submit_score(table, user, data, t) ==
    LET initials == initials_field(data.initials)
    IN  IF ~initials.ok
        THEN [status |-> HTTP_400_BAD_REQUEST,
              body |-> [error |-> initials.error], scores |-> table]
        ELSE IF user = AnonymousUser
        THEN \* serializer.save(user=AnonymousUser): ValueError
             [status |-> HTTP_400_BAD_REQUEST,
              body |-> [error |-> "ValueError"], scores |-> table]
        ELSE LET high_score ==
                     [id |-> Cardinality(table) + 1, user |-> user,
                      initials |-> initials.value, score |-> data.score,
                      final_day |-> Get(data, "final_day", 1),
                      employment |-> Get(data, "employment", 0),
                      inflation |-> Get(data, "inflation", 0),
                      services |-> Get(data, "services", 0),
                      achieved_at |-> t]
             IN  [status |-> HTTP_201_CREATED, body |-> HighScoreSerializer(high_score),
                  scores |-> table \cup {high_score}]

(***************************************************************************)
(* leaderboard (views.py 239-274).  GET holds the query parameters, with   *)
(* or without a limit.  The query orders by -score alone (line 257       *)
(* replaces the ordering of HighScore.Meta), so rows of equal score come   *)
(* in an order the database chooses; a negative limit makes the slice      *)
(* raise, which ends in the 400 of the except clause.  The result is the   *)
(* set of outcomes [status, body, cache, queries] the request can have.    *)
(***************************************************************************)
leaderboard_default_limit == 50
leaderboard_max_limit == 100
leaderboard_timeout == 30

Min(a, b) == IF a < b THEN a ELSE b

\* HighScore.objects...order_by('-score'): the orders the query can return
order_by_score(table) ==
    {rows \in [1..Cardinality(table) -> table] :
        /\ \A i, j \in DOMAIN rows : i # j => rows[i] # rows[j]
        /\ \A i, j \in DOMAIN rows : i < j => rows[i].score >= rows[j].score}

\* HighScoreSerializer(high_scores[:limit], many=True).data
top(rows, limit) ==
    [i \in 1..Min(limit, Len(rows)) |-> HighScoreSerializer(rows[i])]

leaderboard_key(limit) == "leaderboard:" \o ToString(limit)

leaderboard_caches_twice_as_long(table, c, GET, t) ==
    LET limit == Min(Get(GET, "limit", leaderboard_default_limit), leaderboard_max_limit)
        cached_data == CacheGet(c, leaderboard_key(limit), t)
    IN  IF cached_data # Absent
        THEN {[status |-> HTTP_200_OK, body |-> cached_data, cache |-> c, queries |-> 0]}
        ELSE IF limit < 0
        THEN {[status |-> HTTP_400_BAD_REQUEST, body |-> [error |-> "ValueError"],
               cache |-> c, queries |-> 0]}
        ELSE {[status |-> HTTP_200_OK,
               body |-> [rows |-> top(rows, limit)],
               cache |-> CacheSet(c, leaderboard_key(limit), [rows |-> top(rows, limit)],
                                  2 * leaderboard_timeout, t),
               queries |-> 1] : rows \in order_by_score(table)}

leaderboard(table, c, GET, t) ==
    LET limit == Min(Get(GET, "limit", leaderboard_default_limit), leaderboard_max_limit)
        cached_data == CacheGet(c, leaderboard_key(limit), t)
    IN  IF cached_data # Absent
        THEN {[status |-> HTTP_200_OK, body |-> cached_data, cache |-> c, queries |-> 0]}
        ELSE IF limit < 0
        THEN {[status |-> HTTP_400_BAD_REQUEST, body |-> [error |-> "ValueError"],
               cache |-> c, queries |-> 0]}
        ELSE {[status |-> HTTP_200_OK,
               body |-> [rows |-> top(rows, limit)],
               cache |-> CacheSet(c, leaderboard_key(limit), [rows |-> top(rows, limit)],
                                  leaderboard_timeout, t),
               queries |-> 1] : rows \in order_by_score(table)}

(***************************************************************************)
(* BoardSpec: submit_score and leaderboard, called one after another; the  *)
(* clock moves in steps of BoardStep seconds.                              *)
(***************************************************************************)
BoardStep == 10         \* seconds the clock of BoardSpec moves at once
MaxBoardTime == 40      \* the clock of BoardSpec stops here

submit_score_max_requests == 10
submit_score_window_seconds == 60

BoardClients ==
    { [user |-> "1", xff |-> None, addr |-> "10.0.0.1"],
      [user |-> AnonymousUser, xff |-> None, addr |-> "10.0.0.1"] }

ScoreBodies ==
    { [initials |-> <<"a", "1", "!">>, score |-> 10],
      [initials |-> <<"B", "a">>, score |-> 20, final_day |-> 7],
      [initials |-> <<"1">>, score |-> 10] }

Queries == { [limit |-> -1], [limit |-> 0], [limit |-> 2], [limit |-> 101] }

SubmitScore(request, data) ==
    /\ calls < MaxCalls
    /\ calls' = calls + 1
    /\ IF ~has_permission("submit_score", request)
       THEN /\ \E status \in NotAuthenticated :
                  resp' = Response("submit_score", request, data, status, Absent)
            /\ UNCHANGED <<cache, scores>>
       ELSE LET key == cache_key("submit_score", request)
                r == wrapped_view(cache, key, CacheGet(cache, key, now), now, now,
                                  submit_score_max_requests, submit_score_window_seconds)
                out == submit_score(scores, request.user, data, now)
            IN  /\ cache' = r.cache
                /\ IF ~r.allowed
                   THEN /\ resp' = Response("submit_score", request, data,
                                            HTTP_429_TOO_MANY_REQUESTS, Absent)
                        /\ UNCHANGED scores
                   ELSE /\ resp' = Response("submit_score", request, data, out.status, out.body)
                        /\ scores' = out.scores
    /\ UNCHANGED <<now, saves, deco, inflight, log, storeQueries, lastSaved, upstreamCalls>>

Leaderboard(request, GET) ==
    /\ calls < MaxCalls
    /\ calls' = calls + 1
    /\ IF ~has_permission("leaderboard", request)
       THEN /\ \E status \in NotAuthenticated :
                  resp' = Response("leaderboard", request, GET, status, Absent)
            /\ UNCHANGED <<cache, storeQueries>>
       ELSE \E out \in leaderboard(scores, cache, GET, now) :
                /\ resp' = Response("leaderboard", request, GET, out.status, out.body)
                /\ cache' = out.cache
                /\ storeQueries' = storeQueries + out.queries
    /\ UNCHANGED <<now, saves, scores, deco, inflight, log, lastSaved, upstreamCalls>>

BoardTick ==
    /\ now + BoardStep <= MaxBoardTime
    /\ now' = now + BoardStep
    /\ UNCHANGED <<cache, saves, scores, deco, inflight, resp, hist>>

Submit == \E request \in BoardClients, data \in ScoreBodies : SubmitScore(request, data)

Board == \E request \in BoardClients, GET \in Queries : Leaderboard(request, GET)

BoardNext == Submit \/ Board \/ BoardTick

BoardSpec == Init /\ [][BoardNext]_vars

(***************************************************************************)
(* claude_proxy (views.py 287-353), after the permission check and the     *)
(* rate limiter.  messages is "missing" (an empty list), "notlist",        *)
(* "badmsg" (a list with a message without role or content) or "good";     *)
(* configured says whether settings.ANTHROPIC_API_KEY is set; upstream is  *)
(* what client.messages.create does: "ok", "APIError" or "Exception".      *)
(* The result is [status, body, upstream]: upstream counts the API calls.  *)
(***************************************************************************)
claude_api_max_requests == 20
claude_api_window_seconds == 60

claude_proxy(data, configured, upstream) ==
    LET messages == Get(data, "messages", "missing")
        answer(status, msg, n) ==
            [status |-> status, body |-> [error |-> msg], upstream |-> n]
    IN  IF ~configured
        THEN answer(HTTP_503_SERVICE_UNAVAILABLE, "Claude API key not configured", 0)
        ELSE IF messages = "missing"
        THEN answer(HTTP_400_BAD_REQUEST, "No messages provided", 0)
        ELSE IF messages = "notlist"
        THEN answer(HTTP_400_BAD_REQUEST, "Messages must be a list", 0)
        ELSE IF messages = "badmsg"
        THEN answer(HTTP_400_BAD_REQUEST, "Invalid message format", 0)
        ELSE IF upstream = "APIError"
        THEN answer(HTTP_503_SERVICE_UNAVAILABLE, "Claude API error", 1)
        ELSE IF upstream = "Exception"
        THEN answer(HTTP_400_BAD_REQUEST, "Exception", 1)
        ELSE [status |-> HTTP_200_OK, body |-> [message |-> "text"], upstream |-> 1]

(***************************************************************************)
(* user_stats (views.py 363-394): the user's best score (the first of the  *)
(* user's rows ordered by -score; rows of equal score in an order the      *)
(* database chooses) and the two counts.  The result is the set of         *)
(* responses [status, body] the queries can give.                          *)
(***************************************************************************)
user_stats(score_table, save_table, user) ==
    LET mine == {row \in score_table : row.user = user}
        best == {row \in mine : \A other \in mine : other.score <= row.score}
        stats(best_score) ==
            [status |-> HTTP_200_OK,
             body |-> [username |-> user,
                       total_saves |-> Cardinality(saves_of(save_table, user)),
                       total_scores |-> Cardinality(mine),
                       best_score |-> best_score]]
    IN  IF user = AnonymousUser
        THEN {[status |-> HTTP_400_BAD_REQUEST, body |-> [error |-> "TypeError"]]}
        ELSE IF mine = {} THEN {stats(Absent)}
        ELSE {stats(HighScoreSerializer(row)) : row \in best}

ClaudeProxy(request, data) ==
    /\ calls < MaxCalls
    /\ calls' = calls + 1
    /\ IF ~has_permission("claude_proxy", request)
       THEN /\ \E status \in NotAuthenticated :
                  resp' = Response("claude_proxy", request, data, status, Absent)
            /\ UNCHANGED <<cache, upstreamCalls>>
       ELSE LET key == cache_key("claude_api", request)
                r == wrapped_view(cache, key, CacheGet(cache, key, now), now, now,
                                  claude_api_max_requests, claude_api_window_seconds)
            IN  /\ cache' = r.cache
                /\ IF ~r.allowed
                   THEN /\ resp' = Response("claude_proxy", request, data,
                                            HTTP_429_TOO_MANY_REQUESTS, Absent)
                        /\ UNCHANGED upstreamCalls
                   ELSE \E configured \in BOOLEAN, upstream \in {"ok", "APIError", "Exception"} :
                            LET out == claude_proxy(data, configured, upstream)
                            IN  /\ resp' = Response("claude_proxy", request, data,
                                                    out.status, out.body)
                                /\ upstreamCalls' = upstreamCalls + out.upstream
    /\ UNCHANGED <<now, saves, scores, deco, inflight, log, storeQueries, lastSaved>>

UserStats(request) ==
    /\ calls < MaxCalls
    /\ calls' = calls + 1
    /\ IF ~has_permission("user_stats", request)
       THEN \E status \in NotAuthenticated :
                resp' = Response("user_stats", request, Absent, status, Absent)
       ELSE \E out \in user_stats(scores, saves, request.user) :
                resp' = Response("user_stats", request, Absent, out.status, out.body)
    /\ UNCHANGED <<now, cache, saves, scores, deco, inflight, log, storeQueries,
                   lastSaved, upstreamCalls>>

(***************************************************************************)
(* Spec: the six API handlers, called one after another by two clients,    *)
(* one logged in and one not.                                              *)
(***************************************************************************)
ApiSave == \E request \in BoardClients, data \in RaceBodies : SaveGame(request, data)

ApiLoad == \E request \in BoardClients : LoadGame(request)

ApiSubmit == \E request \in BoardClients, data \in ScoreBodies : SubmitScore(request, data)

ApiBoard == \E request \in BoardClients, GET \in {[limit |-> 2], EmptyFields} :
                Leaderboard(request, GET)

ApiProxy == \E request \in BoardClients, data \in {[messages |-> "good"], EmptyFields} :
                ClaudeProxy(request, data)

ApiStats == \E request \in BoardClients : UserStats(request)

Next == ApiSave \/ ApiLoad \/ ApiSubmit \/ ApiBoard \/ ApiProxy \/ ApiStats \/ ApiTick

Spec == Init /\ [][Next]_vars

(***************************************************************************)
(* InitialsSpec: one submit_score request of a logged-in user, with any    *)
(* initials of up to MaxInitials characters.                               *)
(***************************************************************************)
AllInitials == UNION {[1..n -> Alphabet] : n \in 0..MaxInitials}

SubmitInitials ==
    \E initials \in AllInitials :
        /\ calls = 0
        /\ SubmitScore([user |-> "1", xff |-> None, addr |-> "10.0.0.1"],
                       [initials |-> initials, score |-> 10])

InitialsNext == SubmitInitials \/ ApiTick

InitialsSpec == Init /\ [][InitialsNext]_vars

(***************************************************************************)
(* Reading the steps: the request a step answers.                          *)
(***************************************************************************)
Answers(view) == calls' = calls + 1 /\ resp'.view = view

RequestedLimit(GET) == Get(GET, "limit", 50)

\* C5: a leaderboard request whose cache entry (for the same limit) is less
\* than 30 seconds old is answered with the cached list, without a query of
\* the score table and without touching the cache; a request that finds the
\* entry 30 seconds old or older queries the table and stores the answer anew.
C5_CacheThenRefill ==
    [][Answers("leaderboard") =>
        LET key == leaderboard_key(Min(RequestedLimit(resp'.data), 100))
        IN  key \in DOMAIN cache =>
                IF now - cache[key].stored < 30
                THEN /\ resp'.status = HTTP_200_OK
                     /\ resp'.body = cache[key].value
                     /\ storeQueries' = storeQueries
                     /\ cache' = cache
                ELSE /\ resp'.status = HTTP_200_OK
                     /\ storeQueries' = storeQueries + 1
                     /\ key \in DOMAIN cache'
                     /\ cache'[key].stored = now
                     /\ cache'[key].value = resp'.body]_vars

\* One limit only was ever asked for; its entry was filled, expired and was
\* filled again by a second query, and the last request was served from it.
C5_Witness ==
    /\ resp.view = "leaderboard"
    /\ resp.status = HTTP_200_OK
    /\ storeQueries = 2
    /\ calls = 3
    /\ \E key \in DOMAIN cache :
           /\ DOMAIN cache = {key}
           /\ cache[key].stored < now
           /\ now < cache[key].expires
           /\ cache[key].value = resp.body

\* C6: on a cache miss the list returned is sorted by descending score, rows
\* of equal score by descending achieved time, and has at most 100 entries.
Ranked(rows) ==
    \A i, j \in DOMAIN rows :
        i < j => \/ rows[i].score > rows[j].score
                 \/ /\ rows[i].score = rows[j].score
                    /\ rows[i].achieved_at >= rows[j].achieved_at

C6_RankedWithTieBreak ==
    [][(Answers("leaderboard") /\ storeQueries' = storeQueries + 1) =>
        /\ Ranked(resp'.body.rows)
        /\ Len(resp'.body.rows) <= 100]_vars

\* C7: every requested limit, also 0 and a negative one, is clamped to
\* [1, 100]; the request succeeds, the clamped value names the cache entry
\* that holds the answer, and the answer has at most that many entries.
Clamp(n) == IF n < 1 THEN 1 ELSE IF n > 100 THEN 100 ELSE n

C7_LimitClamped ==
    [][Answers("leaderboard") =>
        LET limit == Clamp(RequestedLimit(resp'.data))
        IN  /\ resp'.status = HTTP_200_OK
            /\ Len(resp'.body.rows) <= limit
            /\ CacheGet(cache', leaderboard_key(limit), now) = resp'.body]_vars

\* C8: a request without an authenticated user to save_game, load_game,
\* user_stats or claude_proxy is answered 401 or 403, and changes no save
\* slot, no score entry and no cache entry (so no rate-limit window), and
\* calls no upstream API.
C8_Unauthenticated ==
    [][(/\ calls' = calls + 1
        /\ resp'.view \in {"save_game", "load_game", "user_stats", "claude_proxy"}
        /\ ~is_authenticated(resp'.request)) =>
            /\ resp'.status \in {HTTP_401_UNAUTHORIZED, HTTP_403_FORBIDDEN}
            /\ UNCHANGED <<saves, scores, cache, upstreamCalls>>]_vars

\* Anonymous requests to the four handlers have been answered, with slots,
\* scores and windows of the logged-in user in place.
C8_Witness ==
    /\ resp.view \in {"save_game", "load_game", "user_stats", "claude_proxy"}
    /\ ~is_authenticated(resp.request)
    /\ resp.status \in {HTTP_401_UNAUTHORIZED, HTTP_403_FORBIDDEN}
    /\ saves # {}
    /\ DOMAIN cache # {}

\* The letters of the input, uppercased, the first three of them, padded on
\* the right with spaces: the initials the claims expect.
HasLetter(str) == \E i \in DOMAIN str : isalpha(str[i])

ExpectedInitials(str) ==
    LET letters == SelectSeq(str, isalpha)
        up == [i \in 1..Len(letters) |-> upper(letters[i])]
    IN  SubSeq(up \o <<" ", " ", " ">>, 1, 3)

\* C9: a submit_score request without an authenticated user, with initials
\* that are valid, creates a score entry with no user and is answered 201.
C9_AnonymousAccepted ==
    (/\ resp.view = "submit_score"
     /\ ~is_authenticated(resp.request)
     /\ HasLetter(resp.data.initials)) =>
        /\ resp.status = HTTP_201_CREATED
        /\ \E row \in scores : row.id = resp.body.id /\ row.user = None

\* C10: a submit_score request of a logged-in user whose initials contain a
\* letter is accepted, whatever the length of the input, and the entry stored
\* holds the expected initials.
C10_InitialsNormalized ==
    (/\ resp.view = "submit_score"
     /\ is_authenticated(resp.request)
     /\ HasLetter(resp.data.initials)) =>
        /\ resp.status = HTTP_201_CREATED
        /\ resp.body.initials = ExpectedInitials(resp.data.initials)
        /\ \E row \in scores :
               row.id = resp.body.id /\ row.initials = ExpectedInitials(resp.data.initials)

\* C11: a submit_score request whose initials are empty or hold no letter,
\* and which the rate limiter lets through, is answered 400, and the score
\* entries are the same before and after it.
C11_NoLetterRejected ==
    [][(/\ Answers("submit_score")
        /\ ~HasLetter(resp'.data.initials)
        /\ resp'.status # HTTP_429_TOO_MANY_REQUESTS) =>
            /\ resp'.status = HTTP_400_BAD_REQUEST
            /\ scores' = scores]_vars

(***************************************************************************)
(* ValidateSpec: validate_game_state applied once to a game state.  The    *)
(* fields take values around the bounds of the three rules, a fraction, a  *)
(* string, or are missing; a state that is a list stands for the states    *)
(* that are no mapping.                                                    *)
(***************************************************************************)
FieldValues ==
    {Num(k2) : k2 \in {-22, -20, 0, 2, 7, 200, 202}} \cup {Text}

GameStates ==
    {List} \cup
    {Dict(fields) : fields \in
        UNION {[keys -> FieldValues] :
                  keys \in SUBSET {"currentDay", "employment", "inflation"}}}

Validate ==
    \E game_state \in GameStates :
        /\ calls = 0
        /\ calls' = 1
        /\ resp' = Response("validate_game_state", Absent, game_state, HTTP_200_OK,
                            validate_game_state(game_state))
        /\ UNCHANGED <<now, cache, saves, scores, deco, inflight, log, storeQueries,
                       lastSaved, upstreamCalls>>

ValidateNext == Validate \/ ApiTick

ValidateSpec == Init /\ [][ValidateNext]_vars

\* The rules as the claim gives them: the message of the first rule violated,
\* None when every rule is met.
IsNumberIn(lo, v, hi) == v.t = "num" /\ InRange(lo, v, hi)

IsIntegerIn(lo, v, hi) == IsNumberIn(lo, v, hi) /\ v.twice % 2 = 0

FirstViolatedRule(game_state) ==
    IF game_state.t # "dict" THEN "Game state must be a JSON object"
    ELSE LET f == game_state.fields IN
         IF "currentDay" \notin DOMAIN f THEN "Missing required field: currentDay"
         ELSE IF "employment" \notin DOMAIN f THEN "Missing required field: employment"
         ELSE IF "inflation" \notin DOMAIN f THEN "Missing required field: inflation"
         ELSE IF ~IsIntegerIn(1, f.currentDay, 100) THEN "Invalid currentDay value"
         ELSE IF ~IsNumberIn(0, f.employment, 100) THEN "Invalid employment value"
         ELSE IF ~IsNumberIn(-10, f.inflation, 100) THEN "Invalid inflation value"
         ELSE None

\* C12: validate_game_state returns ok exactly when the state is a mapping
\* with currentDay, employment and inflation, currentDay an integer in
\* [1, 100], employment in [0, 100] and inflation in [-10, 100]; otherwise it
\* returns not-ok with the message of the first rule violated.
C12_FirstViolatedRule ==
    resp.view = "validate_game_state" =>
        /\ ~resp.body.raised
        /\ resp.body.ok = (FirstViolatedRule(resp.data) = None)
        /\ resp.body.error = FirstViolatedRule(resp.data)

\* C13: a save_game request of an authenticated user, let through by the
\* rate limiter, whose game state fails validation is answered 400 with the
\* validator's message (the exception's, where the validator raises), and
\* the save slots are the same before and after it.
C13_InvalidStateRejected ==
    [][(/\ Answers("save_game")
        /\ is_authenticated(resp'.request)
        /\ resp'.status # HTTP_429_TOO_MANY_REQUESTS
        /\ ~validate_game_state(save_fields(resp'.data).game_state).ok) =>
            /\ resp'.status = HTTP_400_BAD_REQUEST
            /\ resp'.body =
                   [error |-> validate_game_state(save_fields(resp'.data).game_state).error]
            /\ saves' = saves]_vars

\* A user who has a slot sent a state the validator returned not-ok for, and
\* was answered 400.
C13_Witness ==
    /\ resp.view = "save_game"
    /\ is_authenticated(resp.request)
    /\ ~validate_game_state(save_fields(resp.data).game_state).ok
    /\ ~validate_game_state(save_fields(resp.data).game_state).raised
    /\ resp.status = HTTP_400_BAD_REQUEST
    /\ saves_of(saves, resp.request.user) # {}

\* C14: load_game of an authenticated user who has no save slot is answered
\* 404, and no load_game request changes the save slots.
C14_MissingSlotIsNotFound ==
    [][Answers("load_game") =>
        /\ saves' = saves
        /\ (is_authenticated(resp'.request) /\ saves_of(saves, resp'.request.user) = {}) =>
               resp'.status = HTTP_404_NOT_FOUND]_vars

\* A user without a slot was answered 404 while another user has a slot.
C14_Witness ==
    /\ resp.view = "load_game"
    /\ is_authenticated(resp.request)
    /\ resp.status = HTTP_404_NOT_FOUND
    /\ saves_of(saves, resp.request.user) = {}
    /\ saves # {}

(***************************************************************************)
(* RLActionsSpec: two views decorated with rate_limit under the prefixes   *)
(* of save_game and submit_score (views.py 106, 199), with the arguments   *)
(* drawn at start, called by a logged-in user and an anonymous client, one *)
(* request after another.  The history records the action and the request  *)
(* of each call.                                                           *)
(***************************************************************************)
RLActions == {"save_game", "submit_score"}

RLActionRequest(key_prefix, request) ==
    LET key == cache_key(key_prefix, request)
        rate_data == CacheGet(cache, key, now)
        r == wrapped_view(cache, key, rate_data, now, now,
                          deco.max_requests, deco.window_seconds)
        status == IF r.allowed THEN HTTP_200_OK ELSE HTTP_429_TOO_MANY_REQUESTS
    IN  /\ Len(log) < MaxCalls
        /\ cache' = r.cache
        /\ resp' = [view |-> key_prefix, request |-> request, status |-> status]
        /\ log' = Append(log, [action |-> key_prefix, request |-> request,
                               key |-> key, time |-> now, hit |-> rate_data # Absent,
                               status |-> status,
                               stored |-> CacheGet(r.cache, key, now)])
        /\ UNCHANGED <<now, saves, scores, deco, inflight, storeQueries, lastSaved, calls, upstreamCalls>>

RLActionCall ==
    \E key_prefix \in RLActions, request \in BoardClients : RLActionRequest(key_prefix, request)

RLActionsNext == RLActionCall \/ ApiTick

RLActionsSpec == RLInit /\ [][RLActionsNext]_vars

\* The identity a request is limited by: the user, or the client's address.
Identity(request) ==
    IF is_authenticated(request) THEN <<"user", request.user>> ELSE <<"ip", ip(request)>>

SamePair(e, action, request) ==
    e.action = action /\ Identity(e.request) = Identity(request)

CacheEntry(c, key) == IF key \in DOMAIN c THEN c[key] ELSE Absent

\* C15: a request of one (action, identity) pair leaves the cache entry of
\* the window of every other pair as it was, and it is denied only if
\* max_requests earlier requests of its own pair were allowed within the
\* last window_seconds: the requests of other pairs never count against it.
C15_WindowsIndependent ==
    [][Len(log') = Len(log) + 1 =>
        LET e == log'[Len(log')]
        IN  /\ \A action \in RLActions, request \in BoardClients :
                   ~SamePair(e, action, request) =>
                       CacheEntry(cache', cache_key(action, request)) =
                           CacheEntry(cache, cache_key(action, request))
            /\ e.status = HTTP_429_TOO_MANY_REQUESTS =>
                   Cardinality({i \in 1..Len(log) :
                                   /\ SamePair(log[i], e.action, e.request)
                                   /\ log[i].status = HTTP_200_OK
                                   /\ e.time - log[i].time <= deco.window_seconds})
                       >= deco.max_requests]_vars

\* One pair was denied and afterwards, within the same window, a request of
\* another pair (the other action, or the other identity) was allowed.
C15_Witness ==
    \E i, j \in 1..Len(log) :
        /\ i < j
        /\ log[i].status = HTTP_429_TOO_MANY_REQUESTS
        /\ log[j].status = HTTP_200_OK
        /\ ~SamePair(log[i], log[j].action, log[j].request)
        /\ log[j].time - log[i].stored.start <= deco.window_seconds

\* C16: every window entry that is readable from the cache expires there
\* window_seconds after its start (an increment keeps both), hence the time
\* since its start is at most window_seconds.
C16_ExpiryAgrees ==
    \A key \in DOMAIN cache :
        CacheLive(cache, key, now) =>
            /\ cache[key].expires = cache[key].value.start + deco.window_seconds
            /\ now - cache[key].value.start <= deco.window_seconds

(***************************************************************************)
(* LimitSpec: save_game, submit_score and claude_proxy called when the     *)
(* logged-in user has one request left in each of the three windows: the   *)
(* user made max_requests - 1 requests in second 0, all answered 400 by    *)
(* the handlers (an invalid game state, initials without a letter, no      *)
(* messages), so the tables are still empty.                               *)
(***************************************************************************)
OneRequestLeft(c, key_prefix, max_requests, window_seconds) ==
    CacheSet(c, cache_key(key_prefix, [user |-> "1", xff |-> None, addr |-> "10.0.0.1"]),
             [count |-> max_requests - 1, start |-> 0], window_seconds, 0)

LimitInit ==
    /\ now = 0
    /\ saves = {}
    /\ scores = {}
    /\ deco = NoDeco
    /\ inflight = [w \in Workers |-> Idle]
    /\ resp = NoResp
    /\ log = <<>>
    /\ storeQueries = 0
    /\ lastSaved = [u \in Users |-> Absent]
    /\ calls = 0
    /\ upstreamCalls = 0
    /\ cache = OneRequestLeft(
                   OneRequestLeft(
                       OneRequestLeft(EmptyCache, "save_game",
                                      save_game_max_requests, save_game_window_seconds),
                       "submit_score", submit_score_max_requests, submit_score_window_seconds),
                   "claude_api", claude_api_max_requests, claude_api_window_seconds)

LimitSave == \E request \in BoardClients, data \in SaveBodies : SaveGame(request, data)

LimitNext == LimitSave \/ ApiSubmit \/ ApiProxy \/ ApiTick

LimitSpec == LimitInit /\ [][LimitNext]_vars

\* C17: a request the rate limiter denies (429) writes no save slot and no
\* score entry, makes no upstream call, and leaves the cache as it was: the
\* count, the start and the expiry of its window are unchanged.
C17_DenialHasNoEffect ==
    [][(calls' = calls + 1 /\ resp'.status = HTTP_429_TOO_MANY_REQUESTS) =>
            UNCHANGED <<saves, scores, cache, upstreamCalls>>]_vars

\* A request was denied after the clock had moved on from the window's
\* start, with a save slot in place.
C17_Witness ==
    /\ resp.view \in {"save_game", "submit_score", "claude_proxy"}
    /\ resp.status = HTTP_429_TOO_MANY_REQUESTS
    /\ saves # {}
    /\ now > 0

\* The window a save_game request of a logged-in user finds.
SaveWindow(request) == CacheGet(cache, cache_key("save_game", request), now)

SaveWindowFull(request) ==
    /\ SaveWindow(request) # Absent
    /\ now - SaveWindow(request).start <= save_game_window_seconds
    /\ SaveWindow(request).count >= save_game_max_requests

\* C18: a save_game request of a logged-in user that finds its window full is
\* answered 429, whether its game state is valid or not; any other is counted
\* in the window (the count goes up by one, or a new window starts at one)
\* and then answered by the handler, whether its game state is valid or not.
C18_LimitBeforeValidation ==
    [][(Answers("save_game") /\ is_authenticated(resp'.request)) =>
        LET request == resp'.request
            key == cache_key("save_game", request)
        IN  IF SaveWindowFull(request)
            THEN /\ resp'.status = HTTP_429_TOO_MANY_REQUESTS
                 /\ cache' = cache
            ELSE /\ resp'.status # HTTP_429_TOO_MANY_REQUESTS
                 /\ CacheGet(cache', key, now) # Absent
                 /\ CacheGet(cache', key, now).count =
                        IF \/ SaveWindow(request) = Absent
                           \/ now - SaveWindow(request).start > save_game_window_seconds
                        THEN 1 ELSE SaveWindow(request).count + 1]_vars

\* A request with a game state that fails validation was answered 400 and
\* took the last unit of the window.
C18_Witness ==
    /\ resp.view = "save_game"
    /\ is_authenticated(resp.request)
    /\ resp.status = HTTP_400_BAD_REQUEST
    /\ ~validate_game_state(save_fields(resp.data).game_state).ok
    /\ SaveWindow(resp.request) # Absent
    /\ SaveWindow(resp.request).count = save_game_max_requests
    /\ saves = {}

\* C19: every slot keeps its created timestamp in every step and its updated
\* timestamp never decreases; a successful save_game leaves the user's slot
\* with the updated timestamp of the request's time, and with that created
\* timestamp too if it is the save that made the slot.
C19_Timestamps ==
    [][/\ \A row \in saves :
              \E after \in saves' :
                  /\ after.id = row.id
                  /\ after.user = row.user
                  /\ after.created_at = row.created_at
                  /\ after.updated_at >= row.updated_at
       /\ (Answers("save_game") /\ resp'.status = HTTP_200_OK) =>
              \A after \in saves_of(saves', resp'.request.user) :
                  /\ after.updated_at = now
                  /\ saves_of(saves, resp'.request.user) = {} => after.created_at = now]_vars

\* A slot made at one time was saved again, successfully, at a later time.
C19_Witness ==
    /\ resp.view = "save_game"
    /\ resp.status = HTTP_200_OK
    /\ \E row \in saves_of(saves, resp.request.user) :
           /\ row.created_at < row.updated_at
           /\ row.updated_at = now

\* C20: under any interleaving of requests, every window entry in the cache
\* has a count of at least 1 and at most max_requests.
C20_CountInRange ==
    \A key \in DOMAIN cache :
        /\ cache[key].value.count >= 1
        /\ cache[key].value.count <= deco.max_requests

\* Requests overlapped: more requests were allowed into a window than
\* max_requests, and the entry's count stands at max_requests.
C20_Witness ==
    /\ AllIdle
    /\ \E key \in DOMAIN cache :
           /\ cache[key].value.count = deco.max_requests
           /\ Cardinality({i \in 1..Len(log) :
                              /\ log[i].key = key
                              /\ log[i].status = HTTP_200_OK
                              /\ log[i].stored.start = cache[key].value.start})
                  > deco.max_requests

(***************************************************************************)
(* BoardRaceSpec: leaderboard handled by several workers at once, with     *)
(* score submissions in between.  A worker reads the cache (LbGet,         *)
(* views.py 245) and answers at once on a hit; on a miss it runs the query *)
(* of the score table (LbQuery, views.py 254-260) and then writes the      *)
(* cache and answers (LbStore, views.py 263-268).  Other requests and the  *)
(* clock, in seconds, may step in between.  Each submission is a whole     *)
(* submit_score request of the logged-in user, with a score above every    *)
(* score so far, so that no two entries tie; the leaderboard requests come *)
(* from an anonymous client and ask for the limit 1.                      *)
(***************************************************************************)
MaxBoardRaceTime == 32      \* the clock of BoardRaceSpec stops here

BoardRaceQueries == { [limit |-> 1] }

LbGet(w, request, GET) ==
    /\ inflight[w].pc = "idle"
    /\ calls + Cardinality({v \in Workers : inflight[v].pc # "idle"}) < MaxCalls
    /\ has_permission("leaderboard", request)
    /\ LET limit == Min(Get(GET, "limit", leaderboard_default_limit), leaderboard_max_limit)
           cached_data == CacheGet(cache, leaderboard_key(limit), now)
       IN  IF cached_data # Absent
           THEN /\ resp' = Response("leaderboard", request, GET, HTTP_200_OK, cached_data)
                /\ calls' = calls + 1
                /\ UNCHANGED inflight
           ELSE /\ inflight' = [inflight EXCEPT ![w] =
                                   [pc |-> "query", request |-> request, GET |-> GET,
                                    limit |-> limit]]
                /\ UNCHANGED <<resp, calls>>
    /\ UNCHANGED <<now, cache, saves, scores, deco, log, storeQueries, lastSaved, upstreamCalls>>

LbQuery(w) ==
    /\ inflight[w].pc = "query"
    /\ \E rows \in order_by_score(scores) :
           inflight' = [inflight EXCEPT ![w] =
                           [pc |-> "store", request |-> @.request, GET |-> @.GET,
                            limit |-> @.limit, data |-> [rows |-> top(rows, @.limit)]]]
    /\ storeQueries' = storeQueries + 1
    /\ UNCHANGED <<now, cache, saves, scores, deco, resp, log, lastSaved, calls, upstreamCalls>>

LbStore(w) ==
    /\ inflight[w].pc = "store"
    /\ cache' = CacheSet(cache, leaderboard_key(inflight[w].limit), inflight[w].data,
                         leaderboard_timeout, now)
    /\ resp' = Response("leaderboard", inflight[w].request, inflight[w].GET,
                        HTTP_200_OK, inflight[w].data)
    /\ calls' = calls + 1
    /\ inflight' = [inflight EXCEPT ![w] = Idle]
    /\ UNCHANGED <<now, saves, scores, deco, log, storeQueries, lastSaved, upstreamCalls>>

BoardRaceSubmit ==
    /\ calls + Cardinality({v \in Workers : inflight[v].pc # "idle"}) < MaxCalls
    /\ SubmitScore([user |-> "1", xff |-> None, addr |-> "10.0.0.1"],
                   [initials |-> <<"a">>, score |-> 10 * (Cardinality(scores) + 1)])

BoardRaceTick ==
    /\ now < MaxBoardRaceTime
    /\ now' = now + 1
    /\ UNCHANGED <<cache, saves, scores, deco, inflight, resp, hist>>

LbArrive ==
    \E w \in Workers, GET \in BoardRaceQueries :
        LbGet(w, [user |-> AnonymousUser, xff |-> None, addr |-> "10.0.0.1"], GET)

LbSelect == \E w \in Workers : LbQuery(w)

LbFill == \E w \in Workers : LbStore(w)

BoardRaceNext == LbArrive \/ LbSelect \/ LbFill \/ BoardRaceSubmit \/ BoardRaceTick

BoardRaceSpec == Init /\ [][BoardRaceNext]_vars

\* The score table as it was when it held its first k entries.
ScoresUpTo(k) == {row \in scores : row.id <= k}

\* rows is the ranked top-limit list of table: by descending score, entries
\* of equal score by descending achieved time.
IsRankedTop(rows, table, limit) ==
    \E order \in order_by_score(table) :
        /\ Ranked(order)
        /\ rows = top(order, limit)

\* C21: a score submission leaves every leaderboard cache entry as it was,
\* and every leaderboard response for a limit, clamped to L, is the ranked
\* top-L list of the score table as it was at some moment no more than 30
\* seconds before the response: of a table that held every entry achieved
\* more than 30 seconds before.
C21_StalenessBounded ==
    [][/\ Answers("submit_score") =>
              \A key \in DOMAIN cache :
                  key # cache_key("submit_score", resp'.request) =>
                      key \in DOMAIN cache' /\ cache'[key] = cache[key]
       /\ Answers("leaderboard") =>
              /\ resp'.status = HTTP_200_OK
              /\ \E k \in 0..Cardinality(scores) :
                     /\ \A row \in scores : row.achieved_at < now - 30 => row.id <= k
                     /\ IsRankedTop(resp'.body.rows, ScoresUpTo(k),
                                    Clamp(RequestedLimit(resp'.data)))]_vars

====
